---- MODULE Spec2Model ----
(***************************************************************************)
(* A model of xp3.py: the XP3 container codec.                             *)
(*                                                                         *)
(*   BufferReader  - bounds-checked cursor over a byte buffer              *)
(*   XP3Parser     - header location, index decoding, extraction and the   *)
(*                   life cycle of the file object / memory map            *)
(*   XP3Packer     - the encoder, with the back-patched index offset       *)
(*                                                                         *)
(* Bytes are the integers 0..255 and a buffer is a sequence of bytes.      *)
(* Integers of the model are 32 bits wide: a decoded u32/u64 field that    *)
(* does not fit is represented by Huge, which is larger than every buffer  *)
(* length of the model, so that every comparison the code makes with a     *)
(* length keeps its outcome.                                               *)
(***************************************************************************)
EXTENDS Integers, Sequences, FiniteSets, TLC

(* ------------------------------ bounds -------------------------------- *)

\* the largest number of files in a packed input directory
MaxFiles == 2
\* the largest number of __enter__ calls on one XP3Parser
MaxEnters == 2

(* --------------------------- small helpers ---------------------------- *)

None == 0

Huge == (2^30 - 1) * 2 + 1

\* addition that saturates at Huge
SatAdd(a, b) == IF a > Huge - b THEN Huge ELSE a + b

Min(a, b) == IF a < b THEN a ELSE b

Rep(b, n) == [i \in 1..n |-> b]

\* Python's data[lo:hi] on a sequence (0-based, clamped to the extent)
Slice(data, lo, hi) ==
  IF Min(hi, Len(data)) <= Min(lo, Len(data)) THEN <<>>
  ELSE SubSeq(data, Min(lo, Len(data)) + 1, Min(hi, Len(data)))

RECURSIVE Concat(_)
Concat(ss) == IF ss = <<>> THEN <<>> ELSE Head(ss) \o Concat(Tail(ss))

(* ------------------------- module constants --------------------------- *)

XP3_SIGNATURE == <<88, 80, 51, 13, 10, 32, 10, 26, 139, 103, 1>>
KRKR_230_MAGIC == <<23, 0, 0, 0, 0, 0, 0, 0>>
KRKR_230_HEADER_PART2 == <<1, 0, 0, 0, 128>> \o Rep(0, 8)
CHUNK_FILE == <<70, 105, 108, 101>>
CHUNK_INFO == <<105, 110, 102, 111>>
CHUNK_SEGM == <<115, 101, 103, 109>>
CHUNK_ADLR == <<97, 100, 108, 114>>
SEGMENT_RECORD_SIZE == 4 + 8 * 3

(* ----------------------- struct pack / unpack ------------------------- *)

\* UINT16_LE.pack
pack_u16(n) == <<n % 256, (n \div 256) % 256>>
\* UINT32_LE.pack
pack_u32(n) == <<n % 256, (n \div 256) % 256, (n \div 65536) % 256,
                 (n \div 16777216) % 256>>
\* UINT64_LE.pack
pack_u64(n) == pack_u32(n) \o <<0, 0, 0, 0>>

unpack_u16(b) == b[1] + 256 * b[2]
unpack_u32(b) ==
  IF b[4] >= 128 THEN Huge
  ELSE b[1] + 256 * b[2] + 65536 * b[3] + 16777216 * b[4]
unpack_u64(b) ==
  IF b[5] # 0 \/ b[6] # 0 \/ b[7] # 0 \/ b[8] # 0 THEN Huge
  ELSE unpack_u32(SubSeq(b, 1, 4))

(* ---------------------------- BufferReader ---------------------------- *)
(* A reader is [data, pos, err, val, oob]: the buffer, the cursor, the     *)
(* exception raised so far ("none" when there is none), the value of the   *)
(* last read and whether a read ever took a slice that ends past the       *)
(* buffer.  An operation on a reader that has raised does nothing: the     *)
(* exception propagates to the caller of the parse.                        *)

BufferReader(data) ==
  [data |-> data, pos |-> 0, err |-> "none", val |-> <<>>, oob |-> FALSE]

eof(r) == r.pos >= Len(r.data)

remaining(r) == Len(r.data) - r.pos

\* BufferReader.read without the bounds check: the slice is clamped
ReadUnchecked(r, size) ==
  IF r.err # "none" THEN r
  ELSE [r EXCEPT !.val = Slice(r.data, r.pos, SatAdd(r.pos, size)),
                 !.pos = SatAdd(r.pos, size),
                 !.oob = r.oob \/ (SatAdd(r.pos, size) > Len(r.data))]

Read(r, size) ==
  IF r.err # "none" THEN r
  ELSE IF size < 0 THEN [r EXCEPT !.err = "ValueError"]
  ELSE IF size > Len(r.data) \/ r.pos > Len(r.data) - size
       THEN [r EXCEPT !.err = "EOFError"]
  ELSE [r EXCEPT !.val = Slice(r.data, r.pos, r.pos + size),
                 !.pos = r.pos + size]

Skip(r, size) ==
  IF r.err # "none" THEN r
  ELSE IF size < 0 THEN [r EXCEPT !.err = "ValueError"]
  ELSE IF size > Len(r.data) \/ r.pos > Len(r.data) - size
       THEN [r EXCEPT !.err = "EOFError"]
  ELSE [r EXCEPT !.pos = r.pos + size]

Peek(r, size) == Slice(r.data, r.pos, r.pos + size)

\* struct.unpack on the bytes a read of size bytes returned (struct.error
\* on a buffer of another length): the reader with val decoded
Unpacked(q, size) ==
  IF q.err # "none" THEN q
  ELSE IF Len(q.val) # size THEN [q EXCEPT !.err = "struct.error"]
  ELSE [q EXCEPT !.val = IF size = 2 THEN unpack_u16(@)
                         ELSE IF size = 4 THEN unpack_u32(@)
                         ELSE unpack_u64(@)]

Read_u16(r) == Unpacked(Read(r, 2), 2)

Read_u32(r) == Unpacked(Read(r, 4), 4)

Read_u64(r) == Unpacked(Read(r, 8), 8)

\* The local variables of a parse function: the reader r and the values v
\* read so far, by name.
Locals(reader) == [r |-> reader, v |-> [k \in {} |-> 0]]

\* name = <the value of the read that gave reader q>
Assigned(st, name, q) == [r |-> q, v |-> (name :> q.val) @@ st.v]

\* name = reader.read_u16() / read_u32() / read_u64(), by the size in bytes
ReadVar(st, name, size) ==
  Assigned(st, name, Unpacked(Read(st.r, size), size))

\* name = reader.read(size)
ReadBytes(st, name, size) == Assigned(st, name, Read(st.r, size))

(* ------------------------------- zlib --------------------------------- *)
(* zlib.adler32, zlib.compress and zlib.decompress.  The stream keeps      *)
(* zlib's framing: the two header bytes (CMF 0x78 and the FLG of the       *)
(* level), one final deflate block, the big-endian Adler-32 of the input.  *)
(* Level 0 emits a stored block, as zlib does.  Levels 1..9 emit a block   *)
(* of byte-aligned symbols: a literal below 144 is one byte, a literal     *)
(* from 144 is an escape and a byte, a run of four or more copies of the   *)
(* previous byte is a length/distance pair (distance 1), and the block     *)
(* ends with an end-of-block symbol.  On runs of one byte the stream has   *)
(* the length zlib produces (n + 8 up to four bytes, 11 from five).        *)

\* The loops over the bytes of a buffer are evaluated a stride at a time,
\* which keeps the recursion shallow: XStride runs the loop body up to a
\* limit, XFrom runs the strides one after the other.
Stride == 2 ^ 5

\* a state is [i, a, b]: the next position and the two sums
RECURSIVE AdlerStride(_, _, _)
AdlerStride(data, st, limit) ==
  IF st.i > limit \/ st.i > Len(data) THEN st
  ELSE LET a2 == (st.a + data[st.i]) % 65521
       IN AdlerStride(data,
            [i |-> st.i + 1, a |-> a2, b |-> (st.b + a2) % 65521], limit)

RECURSIVE AdlerFrom(_, _)
AdlerFrom(data, st) ==
  IF st.i > Len(data) THEN st
  ELSE AdlerFrom(data, AdlerStride(data, st, st.i + Stride))

\* the two sums of Adler-32: [i, a, b] with i behind the data
AdlerAB(data) == AdlerFrom(data, [i |-> 1, a |-> 1, b |-> 0])

\* zlib.adler32 as an integer
adler32(data) ==
  LET Value(ab) == IF ab.b >= 32768 THEN Huge ELSE ab.b * 65536 + ab.a
  IN Value(AdlerAB(data))

\* the four trailer bytes of a zlib stream
AdlerTrailer(data) ==
  LET Bytes(ab) == <<ab.b \div 256, ab.b % 256, ab.a \div 256, ab.a % 256>>
  IN Bytes(AdlerAB(data))

ZFlg(level) ==
  IF level <= 1 THEN 1 ELSE IF level <= 5 THEN 94
  ELSE IF level = 6 THEN 156 ELSE 218

SymEscape == 144 + 0
SymRun == 144 + 1
SymEnd == 144 + 2

\* the number of bytes from position i on that equal byte b (at most 255)
RECURSIVE RunLen(_, _, _, _)
RunLen(data, i, b, n) ==
  IF i > Len(data) \/ n = 255 THEN n
  ELSE IF data[i] # b THEN n
  ELSE RunLen(data, i + 1, b, n + 1)

\* the state behind the symbol for position st.i, given the run found there
DeflateSymbol(data, st, run) ==
  IF run >= 4
  THEN [i |-> st.i + run, out |-> st.out \o <<SymRun, run>>]
  ELSE IF data[st.i] < 144
  THEN [i |-> st.i + 1, out |-> Append(st.out, data[st.i])]
  ELSE [i |-> st.i + 1, out |-> st.out \o <<SymEscape, data[st.i] - 144>>]

\* the symbols for data from position st.i on, appended to st.out
RECURSIVE DeflateStride(_, _, _)
DeflateStride(data, st, limit) ==
  IF st.i > limit \/ st.i > Len(data) THEN st
  ELSE DeflateStride(data,
         DeflateSymbol(data, st,
           IF st.i = 1 THEN 0 ELSE RunLen(data, st.i, data[st.i - 1], 0)),
         limit)

RECURSIVE DeflateFrom(_, _)
DeflateFrom(data, st) ==
  IF st.i > Len(data) THEN Append(st.out, SymEnd)
  ELSE DeflateFrom(data, DeflateStride(data, st, st.i + Stride))

\* the one deflate block of the stream: stored at level 0
DeflateBlock(data, level) ==
  IF level = 0
  THEN <<1, Len(data) % 256, Len(data) \div 256, 255 - (Len(data) % 256),
         255 - (Len(data) \div 256)>> \o data
  ELSE <<3>> \o DeflateFrom(data, [i |-> 1, out |-> <<>>])

zlib_compress(data, level) ==
  <<120, ZFlg(level)>> \o DeflateBlock(data, level) \o AdlerTrailer(data)

\* inflate the symbols of s from position st.next on.  A state is
\* [err, out, next, end]: the output so far, the position of the next
\* symbol, and whether the end-of-block symbol was read.
RECURSIVE InflateStride(_, _, _)
InflateStride(s, st, limit) ==
  LET i == st.next
      bad == [st EXCEPT !.err = "zlib.error"]
  IN IF st.err # "none" \/ st.end \/ i > limit THEN st
     ELSE IF i > Len(s) THEN bad
     ELSE IF s[i] < 144
          THEN InflateStride(s, [st EXCEPT !.out = Append(@, s[i]),
                                           !.next = i + 1], limit)
     ELSE IF s[i] = SymEscape
          THEN IF i + 1 > Len(s) \/ s[i + 1] > 111 THEN bad
               ELSE InflateStride(s, [st EXCEPT !.out = Append(@, s[i + 1] + 144),
                                                !.next = i + 2], limit)
     ELSE IF s[i] = SymRun
          THEN IF i + 1 > Len(s) \/ st.out = <<>> \/ s[i + 1] < 4 THEN bad
               ELSE InflateStride(s,
                      [st EXCEPT !.out = @ \o Rep(@[Len(@)], s[i + 1]),
                                 !.next = i + 2], limit)
     ELSE IF s[i] = SymEnd THEN [st EXCEPT !.end = TRUE, !.next = i + 1]
     ELSE bad

RECURSIVE InflateFrom(_, _)
InflateFrom(s, st) ==
  IF st.err # "none" \/ st.end THEN st
  ELSE InflateFrom(s, InflateStride(s, st, st.next + Stride))

\* the deflate block of the stream s inflated: [err, out, next]
InflateBlock(s) ==
  IF s[3] = 1
  THEN IF Len(s) < 7 THEN [err |-> "zlib.error"]
       ELSE IF s[6] # 255 - s[4] \/ s[7] # 255 - s[5]
               \/ Len(s) < 7 + s[4] + 256 * s[5]
       THEN [err |-> "zlib.error"]
       ELSE [err |-> "none", out |-> SubSeq(s, 8, 7 + s[4] + 256 * s[5]),
             next |-> 8 + s[4] + 256 * s[5]]
  ELSE IF s[3] = 3
  THEN InflateFrom(s, [err |-> "none", out |-> <<>>,
                       next |-> 4, end |-> FALSE])
  ELSE [err |-> "zlib.error"]

\* the check of the Adler-32 trailer behind the inflated block blk
InflateChecked(s, blk) ==
  IF blk.err # "none" \/ Len(s) < blk.next + 3
  THEN [err |-> "zlib.error", out |-> <<>>]
  ELSE IF SubSeq(s, blk.next, blk.next + 3) # AdlerTrailer(blk.out)
  THEN [err |-> "zlib.error", out |-> <<>>]
  ELSE [err |-> "none", out |-> blk.out]

\* zlib.decompress: [err, out]; bytes after the stream are ignored
zlib_decompress(s) ==
  IF Len(s) < 3 THEN [err |-> "zlib.error", out |-> <<>>]
  ELSE IF s[1] # 120 \/ (s[1] * 256 + s[2]) % 31 # 0
  THEN [err |-> "zlib.error", out |-> <<>>]
  ELSE InflateChecked(s, InflateBlock(s))

(* ------------------------------ strings ------------------------------- *)
(* A str is a sequence of code points.  hashlib.md5(...).hexdigest() is    *)
(* modelled as an injective function into strs that are no file name: the  *)
(* digested bytes behind the code point -1.                                *)

md5_hexdigest(bytes) == <<-1>> \o bytes

\* str.encode('utf-16-le')
RECURSIVE utf16le_encode(_)
utf16le_encode(s) ==
  IF s = <<>> THEN <<>>
  ELSE LET cp == Head(s)
       IN IF cp < 65536
          THEN <<cp % 256, cp \div 256>> \o utf16le_encode(Tail(s))
          ELSE LET v == cp - 65536
                   hi == 55296 + (v \div 1024)
                   lo == 56320 + (v % 1024)
               IN <<hi % 256, hi \div 256, lo % 256, lo \div 256>>
                    \o utf16le_encode(Tail(s))

\* str.encode('utf-8', errors='replace')
RECURSIVE utf8_encode(_)
utf8_encode(s) ==
  IF s = <<>> THEN <<>>
  ELSE LET cp == Head(s)
       IN (IF cp < 0 THEN <<63>>
           ELSE IF cp < 128 THEN <<cp>>
           ELSE IF cp < 2048 THEN <<192 + (cp \div 64), 128 + (cp % 64)>>
           ELSE IF cp < 65536
                THEN <<224 + (cp \div 4096), 128 + ((cp \div 64) % 64),
                       128 + (cp % 64)>>
           ELSE <<240 + (cp \div 262144), 128 + ((cp \div 4096) % 64),
                  128 + ((cp \div 64) % 64), 128 + (cp % 64)>>)
          \o utf8_encode(Tail(s))

IsHighSurrogate(u) == u >= 55296 /\ u < 56320
IsLowSurrogate(u) == u >= 56320 /\ u < 57344

\* bytes.decode('utf-16-le'): [ok, str]; not ok is UnicodeDecodeError
RECURSIVE utf16le_decode_from(_, _, _)
utf16le_decode_from(b, i, out) ==
  IF i > Len(b) THEN [ok |-> TRUE, str |-> out]
  ELSE IF i + 1 > Len(b) THEN [ok |-> FALSE, str |-> out]
  ELSE LET u == b[i] + 256 * b[i + 1]
       IN IF IsLowSurrogate(u) THEN [ok |-> FALSE, str |-> out]
          ELSE IF IsHighSurrogate(u)
               THEN IF i + 3 > Len(b) THEN [ok |-> FALSE, str |-> out]
                    ELSE LET w == b[i + 2] + 256 * b[i + 3]
                         IN IF ~IsLowSurrogate(w)
                            THEN [ok |-> FALSE, str |-> out]
                            ELSE utf16le_decode_from(b, i + 4,
                                   Append(out, 65536 + (u - 55296) * 1024
                                                 + (w - 56320)))
          ELSE utf16le_decode_from(b, i + 2, Append(out, u))

utf16le_decode(b) == utf16le_decode_from(b, 1, <<>>)

\* str.rstrip('\x00')
RECURSIVE rstrip_nul(_)
rstrip_nul(s) ==
  IF s = <<>> THEN s
  ELSE IF s[Len(s)] = 0 THEN rstrip_nul(SubSeq(s, 1, Len(s) - 1))
  ELSE s

\* len(str) of Python: the number of code points
py_len(s) == Len(s)


(* ------------------------------ XP3Packer ----------------------------- *)

\* Path.as_posix of a relative path given by its parts
RECURSIVE as_posix(_)
as_posix(parts) ==
  IF Len(parts) = 1 THEN parts[1]
  ELSE parts[1] \o <<47>> \o as_posix(Tail(parts))

\* the order of str: by code point, a proper prefix first
RECURSIVE StrLess(_, _)
StrLess(s, t) ==
  IF t = <<>> THEN FALSE
  ELSE IF s = <<>> THEN TRUE
  ELSE IF Head(s) # Head(t) THEN Head(s) < Head(t)
  ELSE StrLess(Tail(s), Tail(t))

\* the order of Path: by parts
RECURSIVE PathLess(_, _)
PathLess(p, q) ==
  IF q = <<>> THEN FALSE
  ELSE IF p = <<>> THEN TRUE
  ELSE IF Head(p) # Head(q) THEN StrLess(Head(p), Head(q))
  ELSE PathLess(Tail(p), Tail(q))

\* sorted(paths)
RECURSIVE SortedPaths(_)
SortedPaths(S) ==
  IF S = {} THEN <<>>
  ELSE LET First(m) == <<m>> \o SortedPaths(S \ {m})
       IN First(CHOOSE p \in S : \A q \in S \ {p} : PathLess(p, q))

\* f.write(bytes) at position pos of a file opened 'wb'
FileWrite(file, pos, bytes) ==
  Slice(file, 0, pos) \o bytes \o Slice(file, pos + Len(bytes), Len(file))

PlaceholderHeader ==
  XP3_SIGNATURE \o KRKR_230_MAGIC \o KRKR_230_HEADER_PART2 \o pack_u64(0)

\* a seek that stops right behind the signature
PatchPosBehindSignature == Len(XP3_SIGNATURE)

\* the position pack seeks to before it writes the index offset
PatchPos == Len(XP3_SIGNATURE) + Len(KRKR_230_MAGIC) + Len(KRKR_230_HEADER_PART2)

\* is_compressed of pack
IsCompressed(uncompressed_data, level) ==
  level > 0 /\ Len(uncompressed_data) > 0

\* stored_data of pack
StoredData(uncompressed_data, level) ==
  IF IsCompressed(uncompressed_data, level)
  THEN zlib_compress(uncompressed_data, level)
  ELSE uncompressed_data

\* the metadata pack records for one file written at position offset
Metadata(parts, uncompressed_data, level, offset) ==
  [file_name |-> as_posix(parts),
   offset |-> offset,
   uncompressed_size |-> Len(uncompressed_data),
   storage_size |-> Len(StoredData(uncompressed_data, level)),
   is_compressed |-> IsCompressed(uncompressed_data, level),
   adler32 |-> adler32(uncompressed_data)]

_build_info_chunk(meta) ==
  LET Chunk(file_name_bytes) ==
        LET info_size == 4 + 8 + 8 + 2 + Len(file_name_bytes)
        IN CHUNK_INFO \o pack_u64(info_size) \o pack_u32(0)
             \o pack_u64(meta.uncompressed_size) \o pack_u64(meta.storage_size)
             \o pack_u16(py_len(meta.file_name)) \o file_name_bytes
  IN Chunk(utf16le_encode(meta.file_name))

_build_segm_chunk(meta) ==
  CHUNK_SEGM \o pack_u64(SEGMENT_RECORD_SIZE)
    \o pack_u32(IF meta.is_compressed THEN 1 ELSE 0)
    \o pack_u64(meta.offset) \o pack_u64(meta.uncompressed_size)
    \o pack_u64(meta.storage_size)

_build_adlr_chunk(meta) ==
  CHUNK_ADLR \o pack_u64(4) \o pack_u32(meta.adler32)

\* the 'File' chunk _build_raw_index appends for one file
FileChunk(info_chunk, segm_chunk, adlr_chunk) ==
  CHUNK_FILE
    \o pack_u64(Len(info_chunk) + Len(segm_chunk) + Len(adlr_chunk))
    \o info_chunk \o segm_chunk \o adlr_chunk

RECURSIVE _build_raw_index(_)
_build_raw_index(all_metadata) ==
  IF all_metadata = <<>> THEN <<>>
  ELSE FileChunk(_build_info_chunk(Head(all_metadata)),
                 _build_segm_chunk(Head(all_metadata)),
                 _build_adlr_chunk(Head(all_metadata)))
         \o _build_raw_index(Tail(all_metadata))

\* the index block pack appends for raw_index_data: flag, sizes, the
\* compressed index
CompressedIndexBlock(raw_index_data, level) ==
  LET Block(compressed_index_data) ==
        <<1>> \o pack_u64(Len(compressed_index_data))
          \o pack_u64(Len(raw_index_data)) \o compressed_index_data
  IN Block(zlib_compress(raw_index_data, level))

IndexBlock(all_metadata, level) ==
  CompressedIndexBlock(_build_raw_index(all_metadata), level)


(* ------------------------------ XP3Parser ----------------------------- *)
(* A parse result is a record with err ("none" or the exception raised)    *)
(* and oob (whether a read took a slice past its buffer), and the value.   *)

NoInfo ==
  [protect_flag |-> FALSE, uncompressed_size |-> 0, storage_size |-> 0,
   file_name_len_chars |-> 0, file_name |-> <<>>]

\* the entry dict before any sub-chunk is stored in it
EmptyEntry == [keys |-> {}, info |-> NoInfo, segm |-> <<>>, adlr |-> 0]

\* the info dict of the values read, or the exception of the reads
InfoOf(st) ==
  IF st.r.err # "none"
  THEN [err |-> st.r.err, oob |-> st.r.oob, info |-> NoInfo]
  ELSE [err |-> "none", oob |-> st.r.oob,
        info |-> [protect_flag |-> st.v.flags >= Huge,
                  uncompressed_size |-> st.v.uncompressed_size,
                  storage_size |-> st.v.storage_size,
                  file_name_len_chars |-> st.v.file_name_len_chars,
                  file_name |->
                    IF utf16le_decode(st.v.file_name_bytes).ok
                    THEN rstrip_nul(utf16le_decode(st.v.file_name_bytes).str)
                    ELSE md5_hexdigest(st.v.file_name_bytes)]]

\* name_bytes_len = min(file_name_len_chars * 2, reader.remaining())
name_bytes_len(st) ==
  IF st.r.err # "none" THEN 0
  ELSE Min(st.v.file_name_len_chars * 2, remaining(st.r))

\* file_name_bytes = reader.read(name_bytes_len)
ReadName(st) == ReadBytes(st, "file_name_bytes", name_bytes_len(st))

_parse_info_chunk(reader) ==
  InfoOf(ReadName(
    ReadVar(ReadVar(ReadVar(ReadVar(Locals(reader),
      "flags", 4), "uncompressed_size", 8), "storage_size", 8),
      "file_name_len_chars", 2)))

\* the loop of _parse_segm_chunk; SegmRecordRead appends the record read
RECURSIVE SegmLoop(_, _)
SegmRecordRead(segments, st) ==
  IF st.r.err # "none"
  THEN [err |-> st.r.err, oob |-> st.r.oob, segm |-> segments]
  ELSE SegmLoop(st.r, Append(segments,
         [compressed_flag |-> st.v.flags # 0, offset |-> st.v.offset,
          uncompressed_size |-> st.v.uncompressed_size,
          storage_size |-> st.v.storage_size]))

SegmLoop(reader, segments) ==
  IF remaining(reader) < SEGMENT_RECORD_SIZE
  THEN [err |-> "none", oob |-> reader.oob, segm |-> segments]
  ELSE SegmRecordRead(segments,
         ReadVar(ReadVar(ReadVar(ReadVar(Locals(reader),
           "flags", 4), "offset", 8), "uncompressed_size", 8),
           "storage_size", 8))

_parse_segm_chunk(reader) == SegmLoop(reader, <<>>)

_parse_adlr_chunk(reader) ==
  LET Adlr(r1) == [err |-> r1.err, oob |-> r1.oob,
                   adlr |-> IF r1.err = "none" THEN r1.val ELSE 0]
  IN Adlr(Read_u32(reader))

\* The inner loop of _parse_file_entries over the sub-chunks of one entry.
\* SubChunkStore puts the parsed chunk c into the entry dict under key,
\* SubChunkParse picks the parser by the id, SubChunkData reads the data.
RECURSIVE SubChunkLoop(_, _)
SubChunkStore(entry, r3, key, c) ==
  IF c.err # "none"
  THEN [err |-> c.err, oob |-> r3.oob \/ c.oob, entry |-> entry]
  ELSE SubChunkLoop([r3 EXCEPT !.oob = @ \/ c.oob],
                    [entry EXCEPT !.keys = @ \cup {key}, ![key] = c[key]])

SubChunkParse(entry, sub_chunk_id, r3) ==
  IF r3.err # "none"
  THEN [err |-> r3.err, oob |-> r3.oob, entry |-> entry]
  ELSE IF sub_chunk_id = CHUNK_INFO
  THEN SubChunkStore(entry, r3, "info",
                     _parse_info_chunk(BufferReader(r3.val)))
  ELSE IF sub_chunk_id = CHUNK_SEGM
  THEN SubChunkStore(entry, r3, "segm",
                     _parse_segm_chunk(BufferReader(r3.val)))
  ELSE IF sub_chunk_id = CHUNK_ADLR
  THEN SubChunkStore(entry, r3, "adlr",
                     _parse_adlr_chunk(BufferReader(r3.val)))
  ELSE [err |-> "none", oob |-> r3.oob, entry |-> entry]

SubChunkData(entry, st) ==
  IF st.r.err # "none"
  THEN [err |-> st.r.err, oob |-> st.r.oob, entry |-> entry]
  ELSE IF st.v.sub_chunk_size > remaining(st.r)
  THEN [err |-> "ValueError", oob |-> st.r.oob, entry |-> entry]
  ELSE SubChunkParse(entry, st.v.sub_chunk_id,
                     Read(st.r, st.v.sub_chunk_size))

SubChunkLoop(entry_reader, entry) ==
  IF eof(entry_reader) \/ remaining(entry_reader) < 12
  THEN [err |-> "none", oob |-> entry_reader.oob, entry |-> entry]
  ELSE SubChunkData(entry,
         ReadVar(ReadBytes(Locals(entry_reader), "sub_chunk_id", 4),
                 "sub_chunk_size", 8))

\* The outer loop of _parse_file_entries over the 'File' chunks.
\* FileChunkEntry appends the entry e, FileChunkData reads the chunk.
RECURSIVE FileChunkLoop(_, _)
FileChunkEntry(entries, r3, e) ==
  IF e.err # "none"
  THEN [err |-> e.err, oob |-> r3.oob \/ e.oob, entries |-> <<>>]
  ELSE FileChunkLoop([r3 EXCEPT !.oob = @ \/ e.oob], Append(entries, e.entry))

FileChunkRead(entries, r3) ==
  IF r3.err # "none"
  THEN [err |-> r3.err, oob |-> r3.oob, entries |-> <<>>]
  ELSE FileChunkEntry(entries, r3,
                      SubChunkLoop(BufferReader(r3.val), EmptyEntry))

FileChunkData(entries, st) ==
  IF st.r.err # "none"
  THEN [err |-> st.r.err, oob |-> st.r.oob, entries |-> <<>>]
  ELSE IF st.v.entry_size > remaining(st.r)
  THEN [err |-> "ValueError", oob |-> st.r.oob, entries |-> <<>>]
  ELSE FileChunkRead(entries, Read(st.r, st.v.entry_size))

\* a chunk that is no 'File' chunk ends the loop before its size is read
FileChunkId(entries, st) ==
  IF st.r.err = "none" /\ st.v.chunk_id # CHUNK_FILE
  THEN [err |-> "none", oob |-> st.r.oob, entries |-> entries]
  ELSE FileChunkData(entries, ReadVar(st, "entry_size", 8))

FileChunkLoop(reader, entries) ==
  IF eof(reader) \/ remaining(reader) < 12
  THEN [err |-> "none", oob |-> reader.oob, entries |-> entries]
  ELSE FileChunkId(entries, ReadBytes(Locals(reader), "chunk_id", 4))

_parse_file_entries(reader) == FileChunkLoop(reader, <<>>)

\* _parse_file_manager raises the exception of reader r
IndexFailed(r) == [err |-> r.err, oob |-> r.oob, entries |-> <<>>]

\* the entries p parsed from the index data the reader r gave
IndexParsed(r, p) == [p EXCEPT !.oob = @ \/ r.oob]

\* the compressed index: zlib.decompress, the size check, the entries
IndexInflated(index_size, r4, z) ==
  IF z.err # "none" THEN IndexFailed([r4 EXCEPT !.err = z.err])
  ELSE IF Len(z.out) # index_size
  THEN IndexFailed([r4 EXCEPT !.err = "ValueError"])
  ELSE IndexParsed(r4, _parse_file_entries(BufferReader(z.out)))

CompressedIndexData(index_size, r4) ==
  IF r4.err # "none" THEN IndexFailed(r4)
  ELSE IndexInflated(index_size, r4, zlib_decompress(r4.val))

CompressedIndex(st) ==
  CompressedIndexData(st.v.index_size,
    IF st.r.err # "none" THEN st.r ELSE Read(st.r, st.v.compressed_size))

\* the raw index: the entries
RawIndexData(r3) ==
  IF r3.err # "none" THEN IndexFailed(r3)
  ELSE IndexParsed(r3, _parse_file_entries(BufferReader(r3.val)))

RawIndex(r2) == RawIndexData(IF r2.err # "none" THEN r2 ELSE Read(r2, r2.val))

\* the index by its flag byte
IndexByFlag(r1) ==
  IF r1.err # "none" THEN IndexFailed(r1)
  ELSE IF r1.val = <<>> THEN IndexFailed([r1 EXCEPT !.err = "IndexError"])
  ELSE IF r1.val[1] # 0
  THEN CompressedIndex(ReadVar(ReadVar(Locals(r1),
         "compressed_size", 8), "index_size", 8))
  ELSE RawIndex(Read_u64(r1))

_parse_file_manager(xp3_data, offset) ==
  IndexByFlag(Read([BufferReader(xp3_data) EXCEPT !.pos = offset], 1))

\* mmap.find: the first position of sub in data, -1 when there is none
Find(data, sub) ==
  LET First(hits) ==
        IF hits = {} THEN -1 ELSE CHOOSE i \in hits : \A j \in hits : i <= j
  IN First({i \in 0..(Len(data) - Len(sub)) :
              SubSeq(data, i + 1, i + Len(sub)) = sub})

\* the reader behind the legacy block, when the marker is there
LegacySkipped(r1, size) ==
  IF Peek(r1, Len(KRKR_230_MAGIC)) = KRKR_230_MAGIC THEN Skip(r1, size) ELSE r1

\* _parse_xp3_header with the reserved part of the legacy block not skipped
HeaderSkipMagicOnly(reader) ==
  Read_u64(LegacySkipped(Read(reader, Len(XP3_SIGNATURE)),
                         Len(KRKR_230_MAGIC)))

\* the reader after the header is read; val is the index offset
_parse_xp3_header(reader) ==
  Read_u64(LegacySkipped(Read(reader, Len(XP3_SIGNATURE)),
                         Len(KRKR_230_MAGIC) + Len(KRKR_230_HEADER_PART2)))

\* _parse behind the header h found at header_offset
ParseIndex(xp3_data, header_offset, h) ==
  IF h.err # "none"
  THEN [err |-> h.err, oob |-> h.oob, entries |-> <<>>,
        header_offset |-> header_offset, file_manager_offset |-> -1]
  ELSE LET Parsed(m) ==
             [err |-> m.err, oob |-> h.oob \/ m.oob, entries |-> m.entries,
              header_offset |-> header_offset, file_manager_offset |-> h.val]
       IN Parsed(_parse_file_manager(xp3_data, h.val))

\* _parse behind the search for the signature
ParseHeader(xp3_data, header_offset) ==
  IF header_offset = -1
  THEN [err |-> "ValueError", oob |-> FALSE, entries |-> <<>>,
        header_offset |-> -1, file_manager_offset |-> -1]
  ELSE ParseIndex(xp3_data, header_offset,
         _parse_xp3_header(
           [BufferReader(xp3_data) EXCEPT !.pos = header_offset]))

\* [err, oob, entries, header_offset, file_manager_offset]
_parse(xp3_data) == ParseHeader(xp3_data, Find(xp3_data, XP3_SIGNATURE))


(* --------------------------- extraction paths -------------------------- *)
(* The output directory is a function from paths (sequences of parts) to   *)
(* file contents.                                                          *)

EmptyDir == [p \in {} |-> <<>>]

\* the parts of Path(file_name): split at '/', empty parts dropped
RECURSIVE SplitFrom(_, _, _, _)
SplitFrom(s, i, cur, parts) ==
  IF i > Len(s) THEN IF cur = <<>> THEN parts ELSE Append(parts, cur)
  ELSE IF s[i] = 47
       THEN SplitFrom(s, i + 1, <<>>,
                      IF cur = <<>> THEN parts ELSE Append(parts, cur))
  ELSE SplitFrom(s, i + 1, Append(cur, s[i]), parts)

PathParts(file_name) == SplitFrom(file_name, 1, <<>>, <<>>)

IsProperPrefix(p, q) == Len(p) < Len(q) /\ SubSeq(q, 1, Len(p)) = p

\* output_path of extract for file_name, given the files already written:
\* the hashed name when the parent directory cannot be made
OutputPath(file_name, out) ==
  IF \E q \in DOMAIN out : IsProperPrefix(q, PathParts(file_name))
  THEN <<md5_hexdigest(utf8_encode(file_name))>>
  ELSE PathParts(file_name)

\* The bytes extract writes for a segment list: [err, data].
\* SegmentInflated appends the decompressed data z, SegmentData the data
\* of segment i.
RECURSIVE SegmentBytes(_, _, _, _)
SegmentInflated(xp3, segments, i, acc, z) ==
  IF z.err # "none" THEN [err |-> z.err, data |-> acc]
  ELSE SegmentBytes(xp3, segments, i + 1, acc \o z.out)

SegmentData(xp3, segments, i, acc, seg_data) ==
  IF segments[i].compressed_flag
  THEN SegmentInflated(xp3, segments, i, acc, zlib_decompress(seg_data))
  ELSE SegmentBytes(xp3, segments, i + 1, acc \o seg_data)

SegmentBytes(xp3, segments, i, acc) ==
  IF i > Len(segments) THEN [err |-> "none", data |-> acc]
  ELSE SegmentData(xp3, segments, i, acc,
         Slice(xp3, segments[i].offset,
               SatAdd(segments[i].offset, segments[i].storage_size)))

\* The loop of extract over file_manager: [err, out].  ExtractWrite opens
\* output_path and writes the bytes w of the segments of entry i.
RECURSIVE ExtractLoop(_, _, _, _)
ExtractWrite(xp3, entries, i, out, output_path, w) ==
  IF output_path = <<>>
     \/ \E q \in DOMAIN out : IsProperPrefix(output_path, q)
  THEN [err |-> "IsADirectoryError", out |-> out]
  ELSE IF w.err # "none"
  THEN [err |-> w.err, out |-> (output_path :> w.data) @@ out]
  ELSE ExtractLoop(xp3, entries, i + 1, (output_path :> w.data) @@ out)

ExtractLoop(xp3, entries, i, out) ==
  IF i > Len(entries) THEN [err |-> "none", out |-> out]
  ELSE IF "info" \notin entries[i].keys \/ entries[i].segm = <<>>
  THEN ExtractLoop(xp3, entries, i + 1, out)
  ELSE ExtractWrite(xp3, entries, i, out,
                    OutputPath(entries[i].info.file_name, out),
                    SegmentBytes(xp3, entries[i].segm, 1, <<>>))

(* --------------------------- input archives --------------------------- *)
(* The archives the parser is run on: those pack writes, and archives      *)
(* built by hand.  A hand-built archive holds a stored body, a deflated    *)
(* body and an index with one 'File' chunk; Faults names the one deviation *)
(* from the well-formed archive that it carries.                           *)

FileNames == { <<<<97>>>>, <<<<100>>, <<98>>>>, <<<<128512, 120>>>> }

Contents == { <<>>, <<97>>, Rep(97, 11), <<97, 98, 200>> }

Levels == {0, 6, 9}

Directories ==
  UNION { [S -> Contents] :
          S \in {T \in SUBSET FileNames : Cardinality(T) <= MaxFiles} }

Faults ==
  { "none", "idx_eof", "idx_beyond", "idx_huge", "idx_excess", "file_excess",
    "sub_excess", "unknown", "unknown_excess", "adlr0", "adlr3", "adlr5",
    "noinfo", "noadlr", "longname", "badname", "nosig", "empty",
    "seg_packed", "seg_two", "seg_past_end", "seg_flag_equal",
    "seg_clear_unequal", "seg_none", "seg_bad_z" }

Crafts ==
  [prefix : {0, 1}, legacy : BOOLEAN, packed : BOOLEAN, fault : Faults]

NoCraft == [prefix |-> 0, legacy |-> FALSE, packed |-> FALSE, fault |-> "pack"]

StoredBody == <<97, 98, 99>>
DeflatedBody == zlib_compress(StoredBody, 6)

SubChunk(tag, data, excess) == tag \o pack_u64(Len(data) + excess) \o data

SegmRecord(seg) ==
  pack_u32(IF seg.compressed_flag THEN 1 ELSE 0) \o pack_u64(seg.offset)
    \o pack_u64(seg.uncompressed_size) \o pack_u64(seg.storage_size)

RECURSIVE SegmRecords(_)
SegmRecords(segs) ==
  IF segs = <<>> THEN <<>> ELSE SegmRecord(Head(segs)) \o SegmRecords(Tail(segs))

RECURSIVE SumOf(_, _)
SumOf(segs, field) ==
  IF segs = <<>> THEN 0 ELSE Head(segs)[field] + SumOf(Tail(segs), field)

CraftHeader(c, index_offset_field) ==
  Rep(0, c.prefix) \o XP3_SIGNATURE
    \o (IF c.legacy THEN KRKR_230_MAGIC \o KRKR_230_HEADER_PART2 ELSE <<>>)
    \o index_offset_field

\* the segment list a hand-built archive declares
CraftSegments(c) ==
  LET body == Len(CraftHeader(c, pack_u64(0)))
      zbody == body + Len(StoredBody)
      seg(f, o, u, s) == [compressed_flag |-> f, offset |-> o,
                          uncompressed_size |-> u, storage_size |-> s]
      stored == seg(FALSE, body, Len(StoredBody), Len(StoredBody))
      packed == seg(TRUE, zbody, Len(StoredBody), Len(DeflatedBody))
  IN CASE c.fault = "seg_packed" -> <<packed>>
       [] c.fault = "seg_two" -> <<stored, packed>>
       [] c.fault = "seg_past_end" -> <<seg(FALSE, zbody, 1000, 1000)>>
       [] c.fault = "seg_flag_equal" ->
            <<seg(TRUE, zbody, Len(DeflatedBody), Len(DeflatedBody))>>
       [] c.fault = "seg_clear_unequal" ->
            <<seg(FALSE, body, Len(StoredBody) + 2, Len(StoredBody))>>
       [] c.fault = "seg_none" -> <<>>
       [] c.fault = "seg_bad_z" ->
            <<seg(TRUE, body, Len(StoredBody) + 1, Len(StoredBody))>>
       [] OTHER -> <<stored>>

CraftName(c) == <<97, 47, 98>>

\* the raw index of a hand-built archive
CraftIndex(c) ==
  LET CraftFileChunk(payload) ==
        CHUNK_FILE
          \o pack_u64(Len(payload) + (IF c.fault = "file_excess" THEN 1 ELSE 0))
          \o payload
      last_excess == IF c.fault \in {"sub_excess", "unknown_excess"}
                     THEN 1 ELSE 0
      Payload(subs) ==
        CraftFileChunk(Concat([i \in 1..Len(subs) |->
                    SubChunk(subs[i][1], subs[i][2],
                             IF i = Len(subs) THEN last_excess ELSE 0)]))
      adlr_len == CASE c.fault = "adlr0" -> 0 [] c.fault = "adlr3" -> 3
                    [] c.fault = "adlr5" -> 5 [] OTHER -> 4
      adlr_data == SubSeq(pack_u32(adler32(StoredBody)) \o <<0>>, 1, adlr_len)
      SubChunks(segs, info_data) ==
        Payload((IF c.fault = "noinfo" THEN <<>>
                 ELSE << <<CHUNK_INFO, info_data>> >>)
                \o << <<CHUNK_SEGM, SegmRecords(segs)>> >>
                \o (IF c.fault = "noadlr" THEN <<>>
                    ELSE << <<CHUNK_ADLR, adlr_data>> >>)
                \o (IF c.fault \in {"unknown", "unknown_excess"}
                    THEN << <<Rep(120, 4), <<1, 2>> >> >> ELSE <<>>))
      name_len(name_bytes) ==
        IF c.fault = "longname" THEN 9 ELSE Len(name_bytes) \div 2
      Info(segs, name_bytes) ==
        SubChunks(segs,
          pack_u32(0) \o pack_u64(SumOf(segs, "uncompressed_size"))
            \o pack_u64(SumOf(segs, "storage_size"))
            \o pack_u16(name_len(name_bytes)) \o name_bytes)
  IN Info(CraftSegments(c),
          IF c.fault = "badname" THEN <<0, 220>>
          ELSE utf16le_encode(CraftName(c)))

\* the bytes of a hand-built archive
CraftArchive(c) ==
  LET excess == IF c.fault = "idx_excess" THEN 1 ELSE 0
      field(index_at, total) ==
        CASE c.fault = "idx_eof" -> pack_u64(total)
          [] c.fault = "idx_beyond" -> pack_u64(total + 1)
          [] c.fault = "idx_huge" -> Rep(255, 8)
          [] OTHER -> pack_u64(index_at)
      Archive(block, index_at) ==
        CASE c.fault = "empty" -> <<>>
          [] c.fault = "nosig" -> Rep(0, c.prefix) \o StoredBody \o block
          [] OTHER -> CraftHeader(c, field(index_at, index_at + Len(block)))
                        \o StoredBody \o DeflatedBody \o block
      Placed(block) ==
        Archive(block, Len(CraftHeader(c, pack_u64(0))) + Len(StoredBody)
                         + Len(DeflatedBody))
      Packed(raw, z) ==
        Placed(<<1>> \o pack_u64(Len(z) + excess) \o pack_u64(Len(raw)) \o z)
      Index(raw) ==
        IF c.packed THEN Packed(raw, zlib_compress(raw, 6))
        ELSE Placed(<<0>> \o pack_u64(Len(raw) + excess) \o raw)
  IN Index(CraftIndex(c))


(* ------------------------------- state -------------------------------- *)

VARIABLES
  craft,                \* the hand-built archive on disk, NoCraft when packed
  input_dir,            \* XP3Packer.input_dir: relative path -> content
  compress_level,       \* XP3Packer.compress_level
  pc,                   \* the position of pack ("none": nothing to pack)
  files_to_pack,        \* pack: the files not yet written
  file_metadata,        \* pack: the metadata recorded so far
  disk,                 \* the bytes of the archive file
  fpos,                 \* pack: the position of f_out
  file_manager_offset,  \* pack: the position the index block is written at
  xp3_file,             \* XP3Parser.xp3_file: None or a file object
  xp3_data,             \* XP3Parser.xp3_data: None or a memory map
  file_manager,         \* XP3Parser.file_manager
  fds,                  \* the file objects that are open
  maps,                 \* the memory maps that are mapped
  enters,               \* the number of __enter__ calls so far
  last,                 \* the last parser call and how it ended
  outdir                \* the extraction directory: path -> content

vars ==
  <<craft, input_dir, compress_level, pc, files_to_pack, file_metadata, disk,
    fpos, file_manager_offset, xp3_file, xp3_data, file_manager, fds, maps,
    enters, last, outdir>>

packVars ==
  <<files_to_pack, file_metadata, fpos, file_manager_offset>>

parserVars ==
  <<xp3_file, xp3_data, file_manager, fds, maps, enters, last, outdir>>

Call(op, res, err) ==
  [op |-> op, res |-> res, err |-> err, oob |-> FALSE,
   header_offset |-> -1, file_manager_offset |-> -1]

\* XP3Parser.__init__ and XP3Packer.__init__ have run
Init ==
  /\ \/ /\ craft = NoCraft
        /\ input_dir \in Directories
        /\ compress_level \in Levels
        /\ pc = "start"
        /\ disk = <<>>
     \/ /\ craft \in Crafts
        /\ input_dir = EmptyDir
        /\ compress_level = 6
        /\ pc = "none"
        /\ disk = CraftArchive(craft)
  /\ files_to_pack = <<>>
  /\ file_metadata = <<>>
  /\ fpos = 0
  /\ file_manager_offset = 0
  /\ xp3_file = None
  /\ xp3_data = None
  /\ file_manager = <<>>
  /\ fds = {}
  /\ maps = {}
  /\ enters = 0
  /\ last = Call("init", "ok", "none")
  /\ outdir = EmptyDir

(* ------------------------------- pack --------------------------------- *)

\* pack, lines 275-278: open the output, write the placeholder header, list
PackBegin ==
  /\ pc = "start"
  /\ disk' = FileWrite(<<>>, 0, PlaceholderHeader)
  /\ fpos' = Len(PlaceholderHeader)
  /\ files_to_pack' = SortedPaths(DOMAIN input_dir)
  /\ file_metadata' = <<>>
  /\ pc' = "files"
  /\ UNCHANGED <<craft, input_dir, compress_level, file_manager_offset>>
  /\ UNCHANGED parserVars

\* pack, lines 281-302: one iteration of the loop over files_to_pack
PackFile ==
  /\ pc = "files"
  /\ files_to_pack # <<>>
  /\ LET Write(file_path, uncompressed_data, stored_data, offset) ==
           /\ disk' = FileWrite(disk, fpos, stored_data)
           /\ fpos' = fpos + Len(stored_data)
           /\ file_metadata' = Append(file_metadata,
                Metadata(file_path, uncompressed_data, compress_level, offset))
     IN Write(Head(files_to_pack), input_dir[Head(files_to_pack)],
              StoredData(input_dir[Head(files_to_pack)], compress_level), fpos)
  /\ files_to_pack' = Tail(files_to_pack)
  /\ UNCHANGED <<craft, input_dir, compress_level, pc, file_manager_offset>>
  /\ UNCHANGED parserVars

\* pack, lines 303-309: the index block after the last file body
PackIndex ==
  /\ pc = "files"
  /\ files_to_pack = <<>>
  /\ file_manager_offset' = fpos
  /\ LET Write(block) ==
           /\ disk' = FileWrite(disk, fpos, block)
           /\ fpos' = fpos + Len(block)
     IN Write(IndexBlock(file_metadata, compress_level))
  /\ pc' = "patch"
  /\ UNCHANGED <<craft, input_dir, compress_level, files_to_pack, file_metadata>>
  /\ UNCHANGED parserVars

\* pack, lines 310-311: seek to the index-offset field and overwrite it
PackPatch ==
  /\ pc = "patch"
  /\ disk' = FileWrite(disk, PatchPos, pack_u64(file_manager_offset))
  /\ fpos' = PatchPos + 8
  /\ pc' = "done"
  /\ UNCHANGED <<craft, input_dir, compress_level, files_to_pack,
                 file_metadata, file_manager_offset>>
  /\ UNCHANGED parserVars

(* ------------------------ XP3Parser life cycle ------------------------ *)

ArchiveReady == pc \in {"none", "done"}

\* close() without the release of the file object
CloseMapOnly(f, d, fdset, mapset) ==
  [xp3_file |-> f, xp3_data |-> None, fds |-> fdset, maps |-> mapset \ {d}]

\* close() on the fields f, d with the open objects fdset, mapset
CloseFields(f, d, fdset, mapset) ==
  [xp3_file |-> None, xp3_data |-> None,
   fds |-> fdset \ {f}, maps |-> mapset \ {d}]

\* __enter__; open_ok tells whether open() returns a file object
Enter(open_ok) ==
  /\ ArchiveReady
  /\ enters < MaxEnters
  /\ enters' = enters + 1
  /\ UNCHANGED outdir
  /\ LET h == enters + 1
     IN IF ~open_ok
        THEN /\ last' = Call("enter", "raised", "OSError")
             /\ UNCHANGED <<xp3_file, xp3_data, file_manager, fds, maps>>
        ELSE IF disk = <<>>
        THEN \* mmap raises on an empty file
             LET c == CloseFields(h, xp3_data, fds \cup {h}, maps)
             IN /\ xp3_file' = c.xp3_file
                /\ xp3_data' = c.xp3_data
                /\ fds' = c.fds
                /\ maps' = c.maps
                /\ last' = Call("enter", "raised", "mmap")
                /\ UNCHANGED file_manager
        ELSE LET c == CloseFields(h, h, fds \cup {h}, maps \cup {h})
                 Parsed(p) ==
                   IF p.err # "none"
                   THEN /\ xp3_file' = c.xp3_file
                        /\ xp3_data' = c.xp3_data
                        /\ fds' = c.fds
                        /\ maps' = c.maps
                        /\ last' = [Call("enter", "raised", p.err) EXCEPT
                                      !.oob = p.oob,
                                      !.header_offset = p.header_offset,
                                      !.file_manager_offset =
                                         p.file_manager_offset]
                        /\ UNCHANGED file_manager
                   ELSE /\ xp3_file' = h
                        /\ xp3_data' = h
                        /\ fds' = fds \cup {h}
                        /\ maps' = maps \cup {h}
                        /\ file_manager' = p.entries
                        /\ last' = [Call("enter", "ok", "none") EXCEPT
                                      !.oob = p.oob,
                                      !.header_offset = p.header_offset,
                                      !.file_manager_offset =
                                         p.file_manager_offset]
             IN Parsed(_parse(disk))
  /\ UNCHANGED <<craft, input_dir, compress_level, pc, disk>>
  /\ UNCHANGED packVars

\* close()
Close ==
  /\ ArchiveReady
  /\ LET c == CloseFields(xp3_file, xp3_data, fds, maps)
     IN /\ xp3_file' = c.xp3_file
        /\ xp3_data' = c.xp3_data
        /\ fds' = c.fds
        /\ maps' = c.maps
  /\ last' = Call("close", "ok", "none")
  /\ UNCHANGED <<file_manager, enters, outdir>>
  /\ UNCHANGED <<craft, input_dir, compress_level, pc, disk>>
  /\ UNCHANGED packVars

\* __exit__: calls close()
Exit == Close

\* extract(output_dir)
Extract ==
  /\ ArchiveReady
  /\ IF xp3_data = None
     THEN /\ last' = Call("extract", "raised", "RuntimeError")
          /\ UNCHANGED outdir
     ELSE LET Extracted(e) ==
                /\ outdir' = e.out
                /\ last' = Call("extract",
                                IF e.err = "none" THEN "ok" ELSE "raised", e.err)
          IN Extracted(ExtractLoop(disk, file_manager, 1, outdir))
  /\ UNCHANGED <<xp3_file, xp3_data, file_manager, fds, maps, enters>>
  /\ UNCHANGED <<craft, input_dir, compress_level, pc, disk>>
  /\ UNCHANGED packVars

\* the runtime finalises a file object or memory map that __enter__ dropped
\* by rebinding the field that held it
Collect ==
  /\ \/ \E h \in fds \ {xp3_file} : fds' = fds \ {h} /\ UNCHANGED maps
     \/ \E h \in maps \ {xp3_data} : maps' = maps \ {h} /\ UNCHANGED fds
  /\ UNCHANGED <<xp3_file, xp3_data, file_manager, enters, last, outdir>>
  /\ UNCHANGED <<craft, input_dir, compress_level, pc, disk>>
  /\ UNCHANGED packVars

Next ==
  \/ PackBegin
  \/ PackFile
  \/ PackIndex
  \/ PackPatch
  \/ \E open_ok \in BOOLEAN : Enter(open_ok)
  \/ Close
  \/ Exit
  \/ Extract
  \/ Collect

Spec == Init /\ [][Next]_vars


(* ------------------------------ properties ---------------------------- *)

\* __enter__ got past open(): it returned, or raised in mmap or in _parse
Entered == last.op = "enter" /\ last.err # "OSError"

\* the entries extract writes a file for
Extractable(entry) == "info" \in entry.keys /\ entry.segm # <<>>

EntryIndexes == 1..Len(file_manager)

\* C1: packing a directory and extracting the archive gives, for every
\* file of the directory, a file at the same relative path with the same
\* bytes.
C1_RoundTrip ==
  (craft = NoCraft /\ last.op = "extract" /\ last.res = "ok")
    => \A p \in DOMAIN input_dir :
         p \in DOMAIN outdir /\ outdir[p] = input_dir[p]

\* C2: after an extract that returned, the file written for an entry with
\* an info record and a non-empty segment list is exactly as long as the
\* uncompressed_size the entry declares, also when a segment reaches past
\* the end of the container.
C2_ExtractLength ==
  (last.op = "extract" /\ last.res = "ok")
    => \A i \in EntryIndexes :
         Extractable(file_manager[i])
           => LET path == PathParts(file_manager[i].info.file_name)
              IN /\ path \in DOMAIN outdir
                 /\ Len(outdir[path]) = file_manager[i].info.uncompressed_size

BrokenSegmentFaults == {"seg_flag_equal", "seg_clear_unequal"}

\* C3: __enter__ on an archive with a segment record whose compressed flag
\* is set while both sizes are equal, or clear while they differ, raises
\* and leaves no file entry list.
C3_StrictSegments ==
  (Entered /\ craft.fault \in BrokenSegmentFaults)
    => last.res = "raised" /\ file_manager = <<>>

AdlrLengthFaults == {"adlr0", "adlr3", "adlr5"}

\* C4: __enter__ on an archive with an 'adlr' sub-chunk whose declared
\* length is not 4 raises.
C4_AdlrLength ==
  (Entered /\ craft.fault \in AdlrLengthFaults) => last.res = "raised"

OverrunFaults ==
  {"idx_eof", "idx_beyond", "idx_huge", "idx_excess", "file_excess",
   "sub_excess", "unknown_excess"}

Released ==
  \/ last.op = "enter" /\ last.res = "raised"
  \/ last.op = "close"

HeaderField == Len(PlaceholderHeader) - 8

FieldBytes(file) == Slice(file, HeaderField, HeaderField + 8)

\* C7: the index-offset field holds the zero placeholder while the file
\* bodies and the index block are written; the index block is written
\* behind every body; the last step changes only the eight bytes of the
\* field; after it the field holds the position of the flag byte of the
\* index block, and the header reader returns that position.
C7_BackPatch ==
  /\ [](pc \in {"files", "patch"} => FieldBytes(disk) = pack_u64(0))
  /\ [](pc \in {"patch", "done"}
          => /\ disk[file_manager_offset + 1] = 1
             /\ \A i \in 1..Len(file_metadata) :
                  file_metadata[i].offset + file_metadata[i].storage_size
                    <= file_manager_offset)
  /\ [][(pc = "patch" /\ pc' = "done")
          => /\ Len(disk') = Len(disk)
             /\ \A i \in 1..Len(disk) :
                  (i <= HeaderField \/ i > HeaderField + 8)
                    => disk'[i] = disk[i]]_vars
  /\ [](pc = "done"
          => /\ unpack_u64(FieldBytes(disk)) = file_manager_offset
             /\ _parse_xp3_header(BufferReader(disk)).err = "none"
             /\ _parse_xp3_header(BufferReader(disk)).val
                  = file_manager_offset)

C7_Witness ==
  /\ pc = "done"
  /\ Len(file_metadata) = 2
  /\ unpack_u64(FieldBytes(disk)) = file_manager_offset
  /\ file_manager_offset > Len(PlaceholderHeader)

\* the header reader read an index offset from the header at header_offset
HeaderRead == Entered /\ last.file_manager_offset >= 0

MarkerAt(file, at) == Slice(file, at + 11, at + 11 + 8) = KRKR_230_MAGIC

U64At(file, at) ==
  IF at + 8 > Len(file) THEN -1 ELSE unpack_u64(Slice(file, at, at + 8))

\* the header layout with reserved bytes behind the marker: where the
\* reader takes the index offset from and where the encoder leaves it
HeaderLayout(reserved) ==
  /\ HeaderRead
       => last.file_manager_offset =
            IF MarkerAt(disk, last.header_offset)
            THEN U64At(disk, last.header_offset + 11 + 8 + reserved)
            ELSE U64At(disk, last.header_offset + 11)
  /\ pc = "done"
       => U64At(disk, 11 + 8 + reserved) = file_manager_offset

\* C8 as stated: the legacy block is the 8-byte marker and 17 reserved
\* bytes, so the index offset is at signature + 11 + 8 + 17 when the
\* marker is there and at signature + 11 when it is not.
C8_Original == HeaderLayout(17)

\* C8: the legacy block is the 8-byte marker and 13 reserved bytes, so the
\* index offset is at signature + 11 + 8 + 13 when the marker is there,
\* where the encoder writes it, and at signature + 11 when it is not.
C8_HeaderLayout == HeaderLayout(13)

C8_Witness ==
  /\ HeaderRead
  /\ last.res = "ok"
  /\ craft.legacy
  /\ craft.prefix = 1
  /\ MarkerAt(disk, last.header_offset)

\* the payload of the info chunk _build_info_chunk builds
InfoPayload(meta) ==
  LET chunk == _build_info_chunk(meta) IN SubSeq(chunk, 13, Len(chunk))

\* C9: the name_len _build_info_chunk writes is the number of UTF-16 code
\* units of the name, and _parse_info_chunk returns the name that was
\* encoded.
C9_NameRoundTrip ==
  \A i \in 1..Len(file_metadata) :
    LET meta == file_metadata[i]
        payload == InfoPayload(meta)
    IN /\ unpack_u16(SubSeq(payload, 21, 22))
            = Len(utf16le_encode(meta.file_name)) \div 2
       /\ _parse_info_chunk(BufferReader(payload)).info.file_name
            = meta.file_name

\* C10: every segment record pack writes is the only one of its file and
\* has different sizes when its compressed flag is set and equal sizes
\* when it is clear; an empty file has both sizes 0, the flag clear and
\* Adler-32 value 1.
C10_SegmentInvariant ==
  \A i \in 1..Len(file_metadata) :
    LET meta == file_metadata[i]
        chunk == _build_segm_chunk(meta)
        segs == _parse_segm_chunk(
                  BufferReader(SubSeq(chunk, 13, Len(chunk)))).segm
    IN /\ Len(segs) = 1
       /\ segs[1].compressed_flag
            => segs[1].uncompressed_size # segs[1].storage_size
       /\ ~segs[1].compressed_flag
            => segs[1].uncompressed_size = segs[1].storage_size
       /\ meta.uncompressed_size = 0
            => /\ segs[1].storage_size = 0
               /\ ~segs[1].compressed_flag
               /\ meta.adler32 = 1


====
